---- MODULE Spec2Model ----
(***************************************************************************)
(* blarse: a tagged token tree (src/src/parse_token.rs) and the bracket    *)
(* matching tree builder `eval` (src/src/lispy_tests.rs).                  *)
(*                                                                         *)
(* A ParseToken is a record.  kind = "Leaf" carries `indices` (a Range,    *)
(* half open, 0-based), kind = "Branch" carries `children`.  Both carry    *)
(* `body` (the borrowed source text, a sequence of one-character strings)  *)
(* and `tags` (a Vec, order and duplicates kept).                          *)
(* Option<T> is a sequence of length 0 (None) or 1 (Some).                 *)
(* A Vec index i of the code is the index i + 1 of the sequence here.      *)
(***************************************************************************)
EXTENDS Integers, Sequences, FiniteSets, TLC

VARIABLES tokens, arg, pc, stack, out, out2, shown, root

vars == <<tokens, arg, pc, stack, out, out2, shown, root>>

(***************************************************************************)
(* Bounds of the model.                                                    *)
(***************************************************************************)
MaxLen == 6

MaxAnyLen == 4

(***************************************************************************)
(* Option<T>                                                               *)
(***************************************************************************)
None == <<>>

Some(x) == <<x>>

Range(s, e) == [start |-> s, end |-> e]

(***************************************************************************)
(* parse_token.rs                                                          *)
(***************************************************************************)
HasTag(pt, tag) == \E k \in 1..Len(pt.tags) : pt.tags[k] = tag

NewLeaf(tok) ==
    [kind |-> "Leaf", indices |-> tok.indices, body |-> tok.body, tags |-> tok.tags]

NewBranch(children, body, tags) ==
    [kind |-> "Branch", children |-> children, body |-> body, tags |-> tags]

\* children[0] panics on an empty Vec: callers test children # <<>> first.
NewBranchFromFirst(children, tags) ==
    [kind |-> "Branch", children |-> children, body |-> children[1].body, tags |-> tags]

RECURSIVE ContentRange(_)

RECURSIVE KnownRanges(_)

\* children.iter().flat_map(|item| item.content_range()).collect()
KnownRanges(children) ==
    IF children = <<>> THEN <<>>
    ELSE ContentRange(Head(children)) \o KnownRanges(Tail(children))

ContentRangeLastStart(pt) ==
    IF pt.kind = "Leaf" THEN Some(pt.indices)
    ELSE LET known_ranges == KnownRanges(pt.children)
         IN  IF known_ranges # <<>>
             THEN Some(Range(known_ranges[1].end, known_ranges[Len(known_ranges)].start))
             ELSE None

ContentRange(pt) ==
    IF pt.kind = "Leaf" THEN Some(pt.indices)
    ELSE LET known_ranges == KnownRanges(pt.children)
         IN  IF known_ranges # <<>>
             THEN Some(Range(known_ranges[1].start, known_ranges[Len(known_ranges)].end))
             ELSE None

\* &self.body[cr] panics unless cr.start <= cr.end <= self.body.len()
ContentPanics(pt) ==
    LET cr == ContentRange(pt)
    IN  cr # None /\ ~(cr[1].start <= cr[1].end /\ cr[1].end <= Len(pt.body))

Content(pt) ==
    LET cr == ContentRange(pt)
    IN  IF cr # None THEN SubSeq(pt.body, cr[1].start + 1, cr[1].end) ELSE <<>>

\* blex::empty_token(): the empty text, the range 0..0, no tags
EmptyToken == [body |-> <<>>, indices |-> Range(0, 0), tags |-> <<>>]

EmptyParseToken == NewLeaf(EmptyToken)

TokensToParseTokensOp(toks) ==
    [k \in 1..Len(toks) |-> NewLeaf(toks[k])] \o <<EmptyParseToken>>

(***************************************************************************)
(* lispy_tests.rs                                                          *)
(***************************************************************************)
RemoveLastOp(pts) ==
    IF Len(pts) > 0 THEN SubSeq(pts, 1, Len(pts) - 1) ELSE pts

\* pts[(l + 1)..r].to_vec(); panics when l + 1 > r
SliceFromOpener(pts, l, r) == SubSeq(pts, l + 1, r)

Slice(pts, l, r) == SubSeq(pts, l + 2, r)

\* pts.splice(l..=r, vec![new_expr])
SpliceThroughNext(pts, l, r, new_expr) ==
    SubSeq(pts, 1, l) \o <<new_expr>> \o SubSeq(pts, r + 3, Len(pts))

Splice(pts, l, r, new_expr) ==
    SubSeq(pts, 1, l) \o <<new_expr>> \o SubSeq(pts, r + 2, Len(pts))

\* the locals of one call of eval: pts, the loop index i, l_index, r_index
Frame(pts) == [pts |-> pts, i |-> 0, l_index |-> None, r_index |-> None]

Top == stack[Len(stack)]

InEval == pc \in {"eval", "eval2"} /\ stack # <<>>

SetTop(f) == [stack EXCEPT ![Len(stack)] = f]

(***************************************************************************)
(* The inputs: token vectors as a lexer hands them over.                   *)
(***************************************************************************)
\* the tags the s-expression rules leave on a one-character token
CharTags(c) ==
    CASE c = "(" -> <<"(", "paren">>
      [] c = ")" -> <<")", "paren">>
      [] c = "X" -> <<"(", ")">>
      [] OTHER   -> <<"word">>

\* one token per character of the text cs, in source order
Lex(cs) ==
    [k \in 1..Len(cs) |-> [body |-> cs, indices |-> Range(k - 1, k), tags |-> CharTags(cs[k])]]

Kinds == {"(", ")", "a", "X"}

KindSeqs == UNION {[1..n -> Kinds] : n \in 0..MaxLen}

\* "(define (f x) (+ x 1))"
E2EText ==
    <<"(", "d", "e", "f", "i", "n", "e", " ", "(", "f", " ", "x", ")", " ",
      "(", "+", " ", "x", " ", "1", ")", ")">>

E2ETok(s, e, tags) == [body |-> E2EText, indices |-> Range(s, e), tags |-> tags]

E2ETokens ==
    << E2ETok(0, 1, <<"(", "paren">>), E2ETok(1, 7, <<"word">>),
       E2ETok(8, 9, <<"(", "paren">>), E2ETok(9, 10, <<"word">>),
       E2ETok(11, 12, <<"word">>), E2ETok(12, 13, <<")", "paren">>),
       E2ETok(14, 15, <<"(", "paren">>), E2ETok(15, 16, <<"word">>),
       E2ETok(17, 18, <<"word">>), E2ETok(19, 20, <<"word">>),
       E2ETok(20, 21, <<")", "paren">>), E2ETok(21, 22, <<")", "paren">>) >>

NestedTokens == Lex(<<"(", "(", "a", ")", "b", ")">>)

SiblingTokens == Lex(<<"(", "a", ")", "(", "b", ")">>)

Inputs == {Lex(ks) : ks \in KindSeqs} \cup {E2ETokens, NestedTokens, SiblingTokens}

\* tokens whose ranges are any character slots of one text, in any order
AnyText == <<"a", "b", "c">>

AnyKinds == {"(", ")", "a", "X"}

AnyTokens ==
    {[body |-> AnyText, indices |-> Range(p, p + 1), tags |-> CharTags(c)] :
        p \in 0..(Len(AnyText) - 1), c \in AnyKinds}

AnyInputs == UNION {[1..n -> AnyTokens] : n \in 0..MaxAnyLen}

Leaves(toks) == [k \in 1..Len(toks) |-> NewLeaf(toks[k])]

(***************************************************************************)
(* Initial states                                                          *)
(***************************************************************************)
InitRest ==
    /\ arg = <<>>
    /\ pc = "start"
    /\ stack = <<>>
    /\ out = <<>>
    /\ out2 = <<>>
    /\ shown = <<>>
    /\ root = None

Init == tokens \in Inputs /\ InitRest

InitAny == tokens \in AnyInputs /\ InitRest

(***************************************************************************)
(* Callers                                                                 *)
(***************************************************************************)
\* parse_s_exprs: eval(tokens_to_parse_tokens(body))
TokensToParseTokens ==
    /\ pc = "start"
    /\ arg' = TokensToParseTokensOp(tokens)
    /\ stack' = <<Frame(arg')>>
    /\ pc' = "eval"
    /\ UNCHANGED <<tokens, out, out2, shown, root>>

\* eval called on the leaves alone
EvalLeaves ==
    /\ pc = "start"
    /\ arg' = Leaves(tokens)
    /\ stack' = <<Frame(arg')>>
    /\ pc' = "eval"
    /\ UNCHANGED <<tokens, out, out2, shown, root>>

\* lib.rs test: new_branch_from_first(pts, tags), then pt.content()
WrapLeaves ==
    /\ pc = "start"
    /\ IF tokens = <<>>
       THEN pc' = "wrap_panicked" /\ root' = root
       ELSE LET pt == NewBranchFromFirst(Leaves(tokens), <<"expr", "addExpr">>)
            IN  /\ root' = Some(pt)
                /\ pc' = IF ContentPanics(pt) THEN "content_panicked" ELSE "wrapped"
    /\ UNCHANGED <<tokens, arg, stack, out, out2, shown>>

(***************************************************************************)
(* eval, one loop iteration or one call/return per step                    *)
(***************************************************************************)
\* ScanStep with the opener position kept once set, instead of overwritten
ScanStepFirstOpener ==
    /\ InEval
    /\ Top.i < Len(Top.pts)
    /\ ~(Top.l_index # None /\ Top.r_index # None)
    /\ LET f  == Top
           pt == f.pts[f.i + 1]
           l1 == IF f.l_index = None /\ HasTag(pt, "(") THEN Some(f.i) ELSE f.l_index
           r1 == IF f.l_index # None /\ f.r_index = None /\ HasTag(pt, ")")
                 THEN Some(f.i) ELSE f.r_index
       IN  stack' = SetTop([f EXCEPT !.i = f.i + 1, !.l_index = l1, !.r_index = r1])
    /\ UNCHANGED <<tokens, arg, pc, out, out2, shown, root>>

\* the arms (None, None), (Some(_), None) and _ of the match: an opener
\* overwrites l_index while r_index is None, a closer sets r_index once
\* l_index is Some; r_index is never Some while l_index is None
ScanStep ==
    /\ InEval
    /\ Top.i < Len(Top.pts)
    /\ ~(Top.l_index # None /\ Top.r_index # None)
    /\ LET f  == Top
           pt == f.pts[f.i + 1]
           l1 == IF f.r_index = None /\ HasTag(pt, "(") THEN Some(f.i) ELSE f.l_index
           r1 == IF f.l_index # None /\ f.r_index = None /\ HasTag(pt, ")")
                 THEN Some(f.i) ELSE f.r_index
       IN  stack' = SetTop([f EXCEPT !.i = f.i + 1, !.l_index = l1, !.r_index = r1])
    /\ UNCHANGED <<tokens, arg, pc, out, out2, shown, root>>

\* the arm (Some(l), Some(r)): pts[(l + 1)..r].to_vec() and the call eval(pts_slice)
CallInner ==
    /\ InEval
    /\ Top.i < Len(Top.pts)
    /\ Top.l_index # None /\ Top.r_index # None
    /\ Top.l_index[1] + 1 <= Top.r_index[1]
    /\ stack' = Append(stack, Frame(Slice(Top.pts, Top.l_index[1], Top.r_index[1])))
    /\ UNCHANGED <<tokens, arg, pc, out, out2, shown, root>>

\* the arm (Some(l), Some(r)) with l + 1 > r: the slice index panics
PanicSlice ==
    /\ InEval
    /\ Top.i < Len(Top.pts)
    /\ Top.l_index # None /\ Top.r_index # None
    /\ Top.l_index[1] + 1 > Top.r_index[1]
    /\ pc' = IF pc = "eval" THEN "eval_panicked" ELSE "eval2_panicked"
    /\ UNCHANGED <<tokens, arg, stack, out, out2, shown, root>>

\* the inner eval returned a non-empty Vec: new_branch_from_first, splice,
\* and `return eval(pts)`, whose result is this call's result
ReturnInnerNoRestart ==
    /\ InEval
    /\ Len(stack) > 1
    /\ Top.i >= Len(Top.pts)
    /\ Top.pts # <<>>
    /\ LET g        == stack[Len(stack) - 1]
           new_expr == NewBranchFromFirst(Top.pts, <<"expr">>)
           pts1     == Splice(g.pts, g.l_index[1], g.r_index[1], new_expr)
       IN  stack' = SubSeq(stack, 1, Len(stack) - 2)
                       \o <<[Frame(pts1) EXCEPT !.i = Len(pts1)]>>
    /\ UNCHANGED <<tokens, arg, pc, out, out2, shown, root>>

ReturnInner ==
    /\ InEval
    /\ Len(stack) > 1
    /\ Top.i >= Len(Top.pts)
    /\ Top.pts # <<>>
    /\ LET g        == stack[Len(stack) - 1]
           new_expr == NewBranchFromFirst(Top.pts, <<"expr">>)
           pts1     == Splice(g.pts, g.l_index[1], g.r_index[1], new_expr)
       IN  stack' = SubSeq(stack, 1, Len(stack) - 2) \o <<Frame(pts1)>>
    /\ UNCHANGED <<tokens, arg, pc, out, out2, shown, root>>

\* the inner eval returned an empty Vec: children[0] is out of bounds
PanicEmpty ==
    /\ InEval
    /\ Len(stack) > 1
    /\ Top.i >= Len(Top.pts)
    /\ Top.pts = <<>>
    /\ pc' = IF pc = "eval" THEN "eval_panicked" ELSE "eval2_panicked"
    /\ UNCHANGED <<tokens, arg, stack, out, out2, shown, root>>

\* the loop of the outermost call ended: eval returns pts
ReturnTop ==
    /\ InEval
    /\ Len(stack) = 1
    /\ Top.i >= Len(Top.pts)
    /\ stack' = <<>>
    /\ IF pc = "eval"
       THEN out' = Top.pts /\ out2' = out2 /\ pc' = "returned"
       ELSE out2' = Top.pts /\ out' = out /\ pc' = "returned2"
    /\ UNCHANGED <<tokens, arg, shown, root>>

(***************************************************************************)
(* After eval                                                              *)
(***************************************************************************)
\* the builder applied to its own output
ReEval ==
    /\ pc = "returned"
    /\ stack' = <<Frame(out)>>
    /\ pc' = "eval2"
    /\ UNCHANGED <<tokens, arg, out, out2, shown, root>>

\* parse_s_exprs: remove_last(eval(pts))
RemoveLast ==
    /\ pc = "returned"
    /\ shown' = RemoveLastOp(out)
    /\ pc' = "stripped"
    /\ UNCHANGED <<tokens, arg, stack, out, out2, root>>

\* a caller wrapping the forest: new_branch(children, body, tags), then content()
WrapForest ==
    /\ pc = "stripped"
    /\ LET pt == NewBranch(shown, IF tokens = <<>> THEN <<>> ELSE tokens[1].body, <<"expr">>)
       IN  /\ root' = Some(pt)
           /\ pc' = IF ContentPanics(pt) THEN "content_panicked" ELSE "wrapped"
    /\ UNCHANGED <<tokens, arg, stack, out, out2, shown>>

Next ==
    \/ TokensToParseTokens
    \/ EvalLeaves
    \/ WrapLeaves
    \/ ScanStep
    \/ CallInner
    \/ PanicSlice
    \/ ReturnInner
    \/ PanicEmpty
    \/ ReturnTop
    \/ ReEval
    \/ RemoveLast
    \/ WrapForest

Spec == Init /\ [][Next]_vars

SpecAny == InitAny /\ [][Next]_vars

(***************************************************************************)
(* Vocabulary of the properties                                            *)
(***************************************************************************)
IsOpener(pt) == HasTag(pt, "(")

IsCloser(pt) == HasTag(pt, ")")

IsDelim(pt) == IsOpener(pt) \/ IsCloser(pt)

ViaSentinel == arg = TokensToParseTokensOp(tokens)

RECURSIVE Flatten(_)

\* the leaves of a forest, depth first, left to right
Flatten(pts) ==
    IF pts = <<>> THEN <<>>
    ELSE (IF Head(pts).kind = "Leaf" THEN <<Head(pts)>> ELSE Flatten(Head(pts).children))
            \o Flatten(Tail(pts))

RECURSIVE BranchSeq(_)

\* the Branch nodes of a forest, at any depth, in pre-order
BranchSeq(pts) ==
    IF pts = <<>> THEN <<>>
    ELSE (IF Head(pts).kind = "Branch"
          THEN <<Head(pts)>> \o BranchSeq(Head(pts).children) ELSE <<>>)
            \o BranchSeq(Tail(pts))

SeqRange(xs) == {xs[k] : k \in 1..Len(xs)}

FramePts == UNION {SeqRange(BranchSeq(stack[k].pts)) : k \in 1..Len(stack)}

\* every Branch the state holds
AllBranches ==
    SeqRange(BranchSeq(out)) \cup SeqRange(BranchSeq(out2)) \cup SeqRange(BranchSeq(shown))
        \cup SeqRange(BranchSeq(root)) \cup FramePts

RECURSIVE IsFiltered(_, _)

\* ys is xs with some delimiter nodes deleted and nothing else changed
IsFiltered(xs, ys) ==
    IF xs = <<>> THEN ys = <<>>
    ELSE \/ ys # <<>> /\ Head(xs) = Head(ys) /\ IsFiltered(Tail(xs), Tail(ys))
         \/ IsDelim(Head(xs)) /\ IsFiltered(Tail(xs), ys)

RECURSIVE Depth(_, _)

\* openers minus closers among the first k nodes
Depth(pts, k) ==
    IF k = 0 THEN 0
    ELSE Depth(pts, k - 1) + (IF IsOpener(pts[k]) THEN 1 ELSE 0)
                           - (IF IsCloser(pts[k]) THEN 1 ELSE 0)

\* a balanced parenthesization, no node carrying both tags
Balanced(pts) ==
    /\ \A k \in 1..Len(pts) : Depth(pts, k) >= 0 /\ ~(IsOpener(pts[k]) /\ IsCloser(pts[k]))
    /\ Depth(pts, Len(pts)) = 0

RECURSIVE Pending(_, _)

\* the openers still pending after the first k nodes, a closer taking the
\* nearest one; a node with both tags opens when nothing is pending
Pending(pts, k) ==
    IF k = 0 THEN 0
    ELSE LET d == Pending(pts, k - 1)
         IN  IF IsOpener(pts[k]) /\ (d = 0 \/ ~IsCloser(pts[k])) THEN d + 1
             ELSE IF IsCloser(pts[k]) /\ d > 0 THEN d - 1
             ELSE d

HasPair(pts) ==
    \E i, j \in 1..Len(pts) : i < j /\ IsOpener(pts[i]) /\ IsCloser(pts[j])

\* the leaves of a Branch lie in the text from left to right
SourceOrdered(b) ==
    LET ls == Flatten(<<b>>)
    IN  /\ \A k \in 1..Len(ls) :
              ls[k].indices.start <= ls[k].indices.end /\ ls[k].indices.end <= Len(b.body)
        /\ \A k \in 1..(Len(ls) - 1) : ls[k].indices.end <= ls[k + 1].indices.start

RangeOk(b) ==
    LET cr == ContentRange(b)
    IN  cr # None =>
            /\ 0 <= cr[1].start
            /\ cr[1].start <= cr[1].end
            /\ cr[1].end <= Len(b.body)
            /\ ~ContentPanics(b)

Leaf(body, s, e, tags) ==
    [kind |-> "Leaf", indices |-> Range(s, e), body |-> body, tags |-> tags]

Expr(children) ==
    [kind |-> "Branch", children |-> children, body |-> children[1].body, tags |-> <<"expr">>]

(***************************************************************************)
(* C1: eval never panics, whatever the tags of its input (an empty group,  *)
(* a node with both tags included).  Refuted: "( )" followed by any node   *)
(* reaches children[0] of an empty Vec, and an opener followed by a node   *)
(* with both tags reaches pts[(l + 1)..l].                                 *)
(***************************************************************************)
C1_EvalNeverPanics == pc \notin {"eval_panicked", "eval2_panicked"}

(***************************************************************************)
(* C2 as claimed: for "(define (f x) (+ x 1))" the pipeline of             *)
(* parse_s_exprs gives one root Branch whose content is the whole text and *)
(* whose children are define, (f x), (+ x 1).                              *)
(***************************************************************************)


E2EChildren ==
    << Leaf(E2EText, 1, 7, <<"word">>),
       Expr(<<Leaf(E2EText, 9, 10, <<"word">>), Leaf(E2EText, 11, 12, <<"word">>)>>),
       Expr(<<Leaf(E2EText, 15, 16, <<"word">>), Leaf(E2EText, 17, 18, <<"word">>),
              Leaf(E2EText, 19, 20, <<"word">>)>>) >>

E2ECase == pc = "stripped" /\ tokens = E2ETokens /\ ViaSentinel

E2EShape ==
    /\ Len(shown) = 1
    /\ shown[1].kind = "Branch"
    /\ shown[1].children = E2EChildren

C2_E2EWholeText ==
    E2ECase => E2EShape /\ ~ContentPanics(shown[1]) /\ Content(shown[1]) = E2EText

(***************************************************************************)
(* C2 amended: the same root Branch, whose content is the text without its *)
(* outermost parentheses, "define (f x) (+ x 1" (the range 1..20): the     *)
(* delimiters are consumed, so the range runs from the first descendant    *)
(* leaf to the last one.                                                   *)
(***************************************************************************)
C2_E2EInnerText ==
    E2ECase =>
        /\ E2EShape
        /\ ContentRange(shown[1]) = Some(Range(1, 20))
        /\ ~ContentPanics(shown[1])
        /\ Content(shown[1]) = SubSeq(E2EText, 2, 20)

C2_Witness == E2ECase /\ Len(shown) = 1

(***************************************************************************)
(* C3: in the sequence eval returns no opener is followed, at the top      *)
(* level, by a closer.  Refuted: a closer in the last position is never    *)
(* collapsed, "( a )" is returned as it is.                                *)
(***************************************************************************)
C3_NoTopLevelPair == pc = "returned" => ~HasPair(out)

(***************************************************************************)
(* C4: grouping is idempotent: eval applied to a sequence eval returned    *)
(* returns it unchanged, and does not panic.                               *)
(***************************************************************************)
C4_Idempotent ==
    /\ pc # "eval2_panicked"
    /\ pc = "returned2" => out2 = out

C4_Witness == pc = "returned2" /\ Len(BranchSeq(out)) >= 2 /\ HasPair(arg)

(***************************************************************************)
(* C5: a closer is matched with the nearest preceding unmatched opener     *)
(* (nothing between the two positions of a collapse is a delimiter), and   *)
(* "( ( a ) b )" becomes one Branch holding a Branch over a and the leaf   *)
(* b.  Refuted by the second part: the last closer is never collapsed.     *)
(***************************************************************************)
NestedBody == <<"(", "(", "a", ")", "b", ")">>

C5_InnermostFirst ==
    /\ \A k \in 1..Len(stack) :
          (pc \in {"eval", "eval2"} /\ stack[k].l_index # None /\ stack[k].r_index # None
             /\ stack[k].l_index[1] < stack[k].r_index[1]) =>
              /\ IsOpener(stack[k].pts[stack[k].l_index[1] + 1])
              /\ IsCloser(stack[k].pts[stack[k].r_index[1] + 1])
              /\ \A m \in (stack[k].l_index[1] + 2)..stack[k].r_index[1] :
                    ~IsDelim(stack[k].pts[m])
    /\ (pc = "returned" /\ arg = Leaves(NestedTokens)) =>
          out = << Expr(<< Expr(<<Leaf(NestedBody, 2, 3, <<"word">>)>>),
                           Leaf(NestedBody, 4, 5, <<"word">>) >>) >>

(***************************************************************************)
(* C6: "( a ) ( b )" becomes two sibling Branches, and every group of a    *)
(* balanced input, the last one included, becomes a Branch, so no          *)
(* delimiter is left at the top level.  Refuted: the last group stays.     *)
(***************************************************************************)
SiblingBody == <<"(", "a", ")", "(", "b", ")">>

C6_IndependentGroups ==
    /\ (pc = "returned" /\ arg = Leaves(SiblingTokens)) =>
          out = << Expr(<<Leaf(SiblingBody, 1, 2, <<"word">>)>>),
                   Expr(<<Leaf(SiblingBody, 4, 5, <<"word">>)>>) >>
    /\ (pc = "returned" /\ Balanced(arg)) =>
          \A k \in 1..Len(out) : out[k].kind = "Branch"  \/ ~IsDelim(out[k])

(***************************************************************************)
(* C7 as claimed: when eval returns, an opener with no closer after it is  *)
(* still there, the sequence from it on unchanged; a node tagged ")" met   *)
(* while no opener is pending is still at the top level, and the sequence  *)
(* up to it is unchanged when no opener precedes it; "( a" is returned as  *)
(* it is; eval does not panic on an input in which no opener is followed   *)
(* by a closer.                                                            *)
(***************************************************************************)
OpenerStays(p) ==
    (IsOpener(arg[p]) /\ \A q \in (p + 1)..Len(arg) : ~IsCloser(arg[q])) =>
        /\ Len(out) >= Len(arg) - p + 1
        /\ SubSeq(out, Len(out) - (Len(arg) - p), Len(out)) = SubSeq(arg, p, Len(arg))

CloserStays(p) ==
    /\ \E k \in 1..Len(out) : out[k] = arg[p]
    /\ (\A q \in 1..(p - 1) : ~IsOpener(arg[q])) => SubSeq(out, 1, p) = SubSeq(arg, 1, p)

UnmatchedRest ==
    /\ (pc = "returned" /\ tokens = Lex(<<"(", "a">>)) => out = arg
    /\ pc = "eval_panicked" => HasPair(arg)

C8_RangeAnyOrder == \A b \in AllBranches : RangeOk(b)

(***************************************************************************)
(* C8 amended: the same for every Branch whose descendant leaves lie in    *)
(* the text from left to right (each leaf ends where the next one starts,  *)
(* or before), as they do in a Branch eval builds from a lexer's tokens.   *)
(***************************************************************************)
C8_RangeSourceOrder == \A b \in AllBranches : SourceOrdered(b) => RangeOk(b)

C8_Witness ==
    /\ pc = "returned"
    /\ \E b \in SeqRange(BranchSeq(out)) :
          SourceOrdered(b) /\ Len(Flatten(<<b>>)) >= 2 /\ ContentRange(b) # None

(***************************************************************************)
(* C9: no Branch eval creates has a direct child tagged "(" or ")", and    *)
(* the leaves of the output, depth first, are the input with delimiter     *)
(* nodes deleted and nothing else changed, two deleted per Branch: one     *)
(* opener and one closer.                                                  *)
(***************************************************************************)
Deleted == {p \in SeqRange(arg) : p \notin SeqRange(Flatten(out))}

C9_OnlyDelimitersConsumed ==
    pc = "returned" =>
        /\ \A b \in SeqRange(BranchSeq(out)) :
              \A k \in 1..Len(b.children) : ~IsDelim(b.children[k])
        /\ IsFiltered(arg, Flatten(out))
        /\ Len(arg) - Len(Flatten(out)) = 2 * Len(BranchSeq(out))
        /\ Cardinality({p \in Deleted : IsOpener(p)}) >= Len(BranchSeq(out))
        /\ Cardinality({p \in Deleted : IsCloser(p)}) >= Len(BranchSeq(out))

C9_Witness ==
    /\ pc = "returned"
    /\ Len(BranchSeq(out)) >= 2
    /\ \E k \in 1..Len(out) : out[k].kind = "Leaf" /\ IsDelim(out[k])

(***************************************************************************)
(* C10: eval never consumes or moves the last node of its input: a closer  *)
(* recorded in r_index lies before the loop index, the last node of the    *)
(* output is the last node of the input, the sentinel of                   *)
(* tokens_to_parse_tokens is never inside a Branch, and remove_last        *)
(* removes exactly that sentinel.                                          *)
(***************************************************************************)
C10_LastNodeKept ==
    /\ \A k \in 1..Len(stack) :
          (pc \in {"eval", "eval2"} /\ stack[k].r_index # None) =>
              stack[k].r_index[1] < stack[k].i
    /\ (pc = "returned" /\ arg # <<>>) => out # <<>> /\ out[Len(out)] = arg[Len(arg)]
    /\ (pc = "returned" /\ ViaSentinel) =>
          /\ out[Len(out)] = EmptyParseToken
          /\ \A b \in SeqRange(BranchSeq(out)) : EmptyParseToken \notin SeqRange(Flatten(<<b>>))
    /\ (pc = "stripped" /\ ViaSentinel) =>
          /\ out = shown \o <<EmptyParseToken>>
          /\ EmptyParseToken \notin SeqRange(Flatten(shown))

C10_Witness ==
    /\ pc = "stripped"
    /\ ViaSentinel
    /\ BranchSeq(shown) # <<>>
    /\ IsCloser(tokens[Len(tokens)])

====
